---- MODULE Spec2Model ----
(***************************************************************************)
(* Model of attendancecontrol/control/models.py: the custom user manager,  *)
(* the AccessToken record (save, is_token_valid, is_token_expired) and the *)
(* Course record (one-to-one link to AccessToken, URL helpers).            *)
(*                                                                         *)
(* Python values are encoded as follows.  An optional value is a sequence  *)
(* of length 0 (None) or 1 (the value).  A string that the code inspects   *)
(* character by character (an email) is a sequence of one-character        *)
(* strings.  Keyword arguments (the extra_fields dictionary) are a         *)
(* function from the keys given to their values; booleans passed as        *)
(* keyword arguments are the strings "True", "False" and "None" so that    *)
(* `is not True` can be                                                    *)
(* told apart from falsiness.                                              *)
(***************************************************************************)
EXTENDS Integers, Sequences, FiniteSets, TLC

VARIABLES
    users,        \* table control_user: set of rows
    nextUserId,   \* next value of the auto-increment primary key of users
    now,          \* timezone.now(), in seconds
    tokens,       \* table control_accesstoken: set of rows
    nextTokenId,  \* next auto-increment primary key of tokens
    courses,      \* table control_course: set of rows
    nextCourseId, \* next auto-increment primary key of courses
    result        \* the last call: its arguments and its outcome

userVars == <<users, nextUserId>>
tokenVars == <<now, tokens, nextTokenId>>
courseVars == <<courses, nextCourseId>>
vars == <<users, nextUserId, now, tokens, nextTokenId, courses, nextCourseId,
          result>>

None == << >>
Some(x) == <<x>>

----------------------------------------------------------------------------
(* Bounds *)
MaxUsers == 2
MaxTokens == 2
MaxCourses == 2
MaxNow == 7200
TickSeconds == 1800
ShortValidTime == 30

----------------------------------------------------------------------------
(* CustomUserManager and User *)

\* the email arguments tried: None, "", "a@B", "a@b", " A@B", "ab"
Emails ==
    { None, Some(<< >>), Some(<<"a", "@", "B">>), Some(<<"a", "@", "b">>),
      Some(<<" ", "A", "@", "B">>), Some(<<"a", "b">>) }

\* the password arguments tried: None, "", "pw"
Passwords == { None, Some(""), Some("pw") }

\* str.lower() on one character
Lower(c) == IF c = "A" THEN "a" ELSE IF c = "B" THEN "b" ELSE c

RECURSIVE Strip(_)
\* str.strip(): drop leading and trailing whitespace
Strip(s) ==
    IF s = << >> THEN s
    ELSE IF Head(s) = " " THEN Strip(Tail(s))
    ELSE IF s[Len(s)] = " " THEN Strip(SubSeq(s, 1, Len(s) - 1))
    ELSE s

\* index of the last "@" of s, 0 when there is none (str.rsplit('@', 1))
LastAt(s) ==
    LET at == { i \in 1..Len(s) : s[i] = "@" }
    IN IF at = {} THEN 0 ELSE CHOOSE i \in at : \A j \in at : j <= i

\* BaseUserManager.normalize_email: lowercase the domain part of the
\* stripped address; an address without "@" is returned as it is
normalize_email(email) ==
    LET e == IF email = None THEN << >> ELSE email[1]
        s == Strip(e)
        k == LastAt(s)
    IN IF k = 0 THEN e
       ELSE SubSeq(s, 1, k - 1) \o <<"@">>
            \o [i \in 1..(Len(s) - k) |-> Lower(s[k + i])]

\* Python truthiness of an optional string: None and "" are falsy
Falsy(email) == email = None \/ email[1] = << >>

set_password_unusable(password) == <<"!unusable">>

\* AbstractBaseUser.set_password -> make_password: None gives an unusable
\* password, any string (the empty one too) is hashed
set_password(password) ==
    IF password = None THEN <<"!unusable">> ELSE <<"hash", password[1]>>

\* dict.setdefault
setdefault(d, k, v) == IF k \in DOMAIN d THEN d ELSE d @@ (k :> v)

\* dict.get
get(d, k) == IF k \in DOMAIN d THEN d[k] ELSE "None"

\* the field defaults of User (and the fields inherited from AbstractUser)
UserDefaults ==
    [is_student |-> "False", is_teacher |-> "False", is_staff |-> "False",
     is_superuser |-> "False", is_active |-> "True", username |-> ""]

\* self.model(email=email, **extra_fields) followed by set_password
NewUser(email, password, extra_fields) ==
    [f \in DOMAIN UserDefaults |->
        IF f \in DOMAIN extra_fields THEN extra_fields[f] ELSE UserDefaults[f]]
    @@ [email |-> email, password |-> set_password(password)]

UniqueViolation_username_only(u) == \E v \in users : v.username = u.username

\* the unique constraints user.save() runs into: email (unique=True) and the
\* username field kept from AbstractUser
UniqueViolation(u) ==
    \E v \in users : v.email = u.email \/ v.username = u.username

create_user_unchecked(email, password, extra_fields) ==
    LET user == NewUser(normalize_email(email), password, extra_fields)
    IN IF UniqueViolation(user) THEN <<"IntegrityError", None>>
       ELSE <<"ok", Some(user @@ [id |-> nextUserId])>>

\* outcome of create_user: <<outcome, user row or None>>
create_user(email, password, extra_fields) ==
    IF Falsy(email) THEN <<"ValueError", None>>
    ELSE LET user == NewUser(normalize_email(email), password, extra_fields)
         IN IF UniqueViolation(user) THEN <<"IntegrityError", None>>
            ELSE <<"ok", Some(user @@ [id |-> nextUserId])>>

create_superuser_staff_only(email, password, extra_fields) ==
    LET e1 == setdefault(extra_fields, "is_staff", "True")
        e2 == setdefault(e1, "is_superuser", "True")
        e3 == setdefault(e2, "is_active", "True")
    IN IF get(e3, "is_staff") # "True" THEN <<"ValueError", None>>
       ELSE create_user(email, password, e3)

\* outcome of create_superuser
create_superuser(email, password, extra_fields) ==
    LET e1 == setdefault(extra_fields, "is_staff", "True")
        e2 == setdefault(e1, "is_superuser", "True")
        e3 == setdefault(e2, "is_active", "True")
    IN IF get(e3, "is_staff") # "True" THEN <<"ValueError", None>>
       ELSE IF get(e3, "is_superuser") # "True" THEN <<"ValueError", None>>
       ELSE create_user(email, password, e3)

\* keyword arguments tried with create_user
UserExtraFields ==
    { << >>, [username |-> "u"], [is_staff |-> "True"] }

\* keyword arguments tried with create_superuser
SuperuserExtraFields ==
    { << >>, [is_staff |-> "False"], [is_superuser |-> "None"],
      [is_staff |-> "True", is_superuser |-> "False", username |-> "u"],
      [is_staff |-> "True", is_superuser |-> "True", username |-> "u"] }

\* the effect of a manager call on the table and the record of the call
StoreUser(op, email, password, extra_fields, r) ==
    /\ users' = IF r[1] = "ok" THEN users \cup {r[2][1]} ELSE users
    /\ nextUserId' = IF r[1] = "ok" THEN nextUserId + 1 ELSE nextUserId
    /\ result' = [op |-> op, email |-> email, password |-> password,
                      extra_fields |-> extra_fields, outcome |-> r[1],
                      user |-> r[2], before |-> users]

CreateUser ==
    \E email \in Emails, password \in Passwords, extra_fields \in UserExtraFields :
        /\ Cardinality(users) < MaxUsers
        /\ StoreUser("create_user", email, password, extra_fields,
                     create_user(email, password, extra_fields))
        /\ UNCHANGED <<tokenVars, courseVars>>

CreateSuperuser ==
    \E email \in Emails, password \in {None, Some("pw")},
       extra_fields \in SuperuserExtraFields :
        /\ Cardinality(users) < MaxUsers
        /\ StoreUser("create_superuser", email, password, extra_fields,
                     create_superuser(email, password, extra_fields))
        /\ UNCHANGED <<tokenVars, courseVars>>

NoCall == [op |-> "none"]

Init ==
    /\ users = {}
    /\ nextUserId = 1
    /\ now = 0
    /\ tokens = {}
    /\ nextTokenId = 1
    /\ courses = {}
    /\ nextCourseId = 1
    /\ result = NoCall

NextUser == CreateUser \/ CreateSuperuser

SpecUser == Init /\ [][NextUser]_vars

----------------------------------------------------------------------------
(* AccessToken *)

\* valid_time = models.IntegerField(..., default=90)
DefaultValidTime == 90

\* timedelta(seconds=(...)*60)
SecondsPerMinute == 60

\* the values secrets.token_urlsafe(10) is taken to return
TokenStrings == {"tokA", "tokB"}

\* secrets.token_urlsafe(10) / generate_token: any of the random strings
generate_token == TokenStrings

\* the valid_time values given to AccessToken(...)
ValidTimes == {0, DefaultValidTime}

\* AccessToken(valid_time=vt) before its first save: no primary key, no
\* creation time, an empty token
NewAccessToken(vt) ==
    [id |-> None, token |-> "", created |-> None, valid_time |-> vt]

\* Python's `not self.id`
NoId(self) == self.id = None \/ self.id = Some(0)

\* models.Model.save: insert a row under a fresh primary key when the
\* instance has none, update the row of that key otherwise; gives the
\* instance as it is after the save
super_save(self) ==
    IF self.id = None THEN [self EXCEPT !.id = Some(nextTokenId)] ELSE self

save_always_stamps(self, tok) ==
    super_save([self EXCEPT !.created = Some(now), !.token = tok])

\* AccessToken.save: the first save stamps created and token
save(self, tok) ==
    super_save(IF NoId(self)
               THEN [self EXCEPT !.created = Some(now), !.token = tok]
               ELSE self)

is_token_valid_prefix(self, given_token) ==
    IF given_token = "" \/ self.token = given_token THEN TRUE ELSE FALSE

\* AccessToken.is_token_valid
is_token_valid(self, given_token) ==
    IF self.token = given_token THEN TRUE ELSE FALSE

\* Python's `custom_valid_time or self.valid_time`: the right operand when
\* the left one is None or 0
Or(custom_valid_time, valid_time) ==
    IF custom_valid_time = None \/ custom_valid_time[1] = 0
    THEN valid_time ELSE custom_valid_time[1]

is_token_expired_inclusive(self, custom_valid_time) ==
    LET expiration_time ==
            self.created[1]
            + Or(custom_valid_time, self.valid_time) * SecondsPerMinute
    IN IF now <= expiration_time THEN FALSE ELSE TRUE

\* AccessToken.is_token_expired
is_token_expired(self, custom_valid_time) ==
    LET expiration_time ==
            self.created[1]
            + Or(custom_valid_time, self.valid_time) * SecondsPerMinute
    IN IF now < expiration_time THEN FALSE ELSE TRUE

\* the override windows tried with is_token_expired
CustomValidTimes ==
    {None, Some(0), Some(ShortValidTime), Some(DefaultValidTime)}

\* timezone.now() advances
Tick ==
    /\ now + TickSeconds <= MaxNow
    /\ now' = now + TickSeconds
    /\ result' = [op |-> "tick"]
    /\ UNCHANGED <<tokens, nextTokenId, userVars, courseVars>>

\* the instances save() is called on: a new one, or a stored one with its
\* valid_time set
Instances ==
    { NewAccessToken(vt) : vt \in ValidTimes }
    \cup { [row EXCEPT !.valid_time = vt] : row \in tokens, vt \in ValidTimes }

AccessTokenSave ==
    \E self \in Instances, tok \in generate_token :
        LET saved == save(self, tok)
        IN /\ self.id = None => nextTokenId <= MaxTokens
           /\ tokens' = { row \in tokens : row.id # saved.id } \cup {saved}
           /\ nextTokenId' = IF self.id = None THEN nextTokenId + 1
                             ELSE nextTokenId
           /\ result' = [op |-> "save", self |-> self, saved |-> saved,
                              before |-> tokens]
           /\ UNCHANGED <<now, userVars, courseVars>>

IsTokenValid ==
    \E self \in tokens, given_token \in TokenStrings \cup {""} :
        /\ result' = [op |-> "is_token_valid", self |-> self,
                           given_token |-> given_token,
                           ret |-> is_token_valid(self, given_token),
                           before |-> tokens]
        /\ UNCHANGED <<now, tokens, nextTokenId, userVars, courseVars>>

IsTokenExpired ==
    \E self \in tokens, custom_valid_time \in CustomValidTimes :
        /\ result' = [op |-> "is_token_expired", self |-> self,
                           custom_valid_time |-> custom_valid_time,
                           ret |-> is_token_expired(self, custom_valid_time),
                           before |-> tokens]
        /\ UNCHANGED <<now, tokens, nextTokenId, userVars, courseVars>>

NextToken == Tick \/ AccessTokenSave \/ IsTokenValid \/ IsTokenExpired

SpecToken == Init /\ [][NextToken]_vars

----------------------------------------------------------------------------
(* Course *)

\* django.urls.reverse: the route name and the positional arguments the URL
\* is built from
reverse(route, args) == [route |-> route, args |-> args]

\* str(self.id)
str(id) == ToString(id)

\* the related AccessToken of a course, None when the column is NULL
access_token(self) ==
    IF self.access_token = None THEN None
    ELSE Some(CHOOSE t \in tokens : t.id = self.access_token)

get_absolute_student_url(self) ==
    reverse("student:detail", <<str(self.id)>>)

get_absolute_student_leave_url(self) ==
    reverse("student:leave_course", <<str(self.id)>>)

get_absolute_student_register_url_no_token(self) ==
    reverse("student:register_course", <<str(self.id), "">>)

\* Course.get_absolute_student_register_url
get_absolute_student_register_url(self) ==
    LET token == IF access_token(self) # None THEN access_token(self)[1].token
                 ELSE ""
    IN reverse("student:register_course", <<str(self.id), token>>)

get_absolute_teacher_url(self) ==
    reverse("teacher:detail", <<str(self.id)>>)

get_absolute_teacher_delete_url(self) ==
    reverse("teacher:delete", <<str(self.id)>>)

get_absolute_teacher_edit_url(self) ==
    reverse("teacher:edit", <<str(self.id)>>)

Helpers ==
    {"student", "student_leave", "student_register", "teacher",
     "teacher_delete", "teacher_edit"}

\* the URL helper of that name applied to a course
Url(helper, self) ==
    CASE helper = "student" -> get_absolute_student_url(self)
      [] helper = "student_leave" -> get_absolute_student_leave_url(self)
      [] helper = "student_register" -> get_absolute_student_register_url(self)
      [] helper = "teacher" -> get_absolute_teacher_url(self)
      [] helper = "teacher_delete" -> get_absolute_teacher_delete_url(self)
      [] helper = "teacher_edit" -> get_absolute_teacher_edit_url(self)

\* the values a course's access_token column can be given: NULL or the key
\* of a stored token
TokenLinks == {None} \cup { t.id : t \in tokens }

\* OneToOneField: the column is unique, no other course may hold the link
LinkTaken(id, link) ==
    link # None /\ \E c \in courses : c.id # id /\ c.access_token = link

\* Course(access_token=link).save(): insert a course
CourseCreate ==
    \E link \in TokenLinks :
        LET self == [id |-> nextCourseId, access_token |-> link]
            ok == ~LinkTaken(self.id, link)
        IN /\ nextCourseId <= MaxCourses
           /\ courses' = IF ok THEN courses \cup {self} ELSE courses
           /\ nextCourseId' = IF ok THEN nextCourseId + 1 ELSE nextCourseId
           /\ result' = [op |-> "course_create", self |-> self,
                         outcome |-> IF ok THEN "ok" ELSE "IntegrityError"]
           /\ UNCHANGED <<userVars, tokenVars>>

\* course.access_token = link; course.save(): update a course
CourseSetToken ==
    \E c \in courses, link \in TokenLinks :
        LET self == [c EXCEPT !.access_token = link]
            ok == ~LinkTaken(self.id, link)
        IN /\ courses' = IF ok THEN (courses \ {c}) \cup {self} ELSE courses
           /\ result' = [op |-> "course_save", self |-> self,
                         outcome |-> IF ok THEN "ok" ELSE "IntegrityError"]
           /\ UNCHANGED <<nextCourseId, userVars, tokenVars>>

\* the rows a deletion of a course takes with it through on_delete=CASCADE:
\* no model has a cascading foreign key to Course, and the key between Course
\* and AccessToken is a column of Course
CourseCascade(self) == [courses |-> {self}, tokens |-> {}]

\* the rows a deletion of a token takes with it: Course.access_token is
\* on_delete=CASCADE, so the course holding the token goes as well
AccessTokenCascade(self) ==
    [courses |-> { c \in courses : c.access_token = self.id },
     tokens |-> {self}]

\* course.delete()
CourseDelete ==
    \E self \in courses :
        /\ courses' = courses \ CourseCascade(self).courses
        /\ tokens' = tokens \ CourseCascade(self).tokens
        /\ result' = [op |-> "course_delete", self |-> self]
        /\ UNCHANGED <<nextCourseId, now, nextTokenId, userVars>>

\* access_token.delete()
AccessTokenDelete ==
    \E self \in tokens :
        /\ courses' = courses \ AccessTokenCascade(self).courses
        /\ tokens' = tokens \ AccessTokenCascade(self).tokens
        /\ result' = [op |-> "token_delete", self |-> self]
        /\ UNCHANGED <<nextCourseId, now, nextTokenId, userVars>>

\* one of the six URL helpers is called on a stored course
GetAbsoluteUrl ==
    \E self \in courses, helper \in Helpers :
        /\ result' = [op |-> "url", helper |-> helper, self |-> self,
                      url |-> Url(helper, self)]
        /\ UNCHANGED <<userVars, tokenVars, courseVars>>

NextCourse ==
    \/ AccessTokenSave
    \/ CourseCreate
    \/ CourseSetToken
    \/ CourseDelete
    \/ AccessTokenDelete
    \/ GetAbsoluteUrl

SpecCourse == Init /\ [][NextCourse]_vars

----------------------------------------------------------------------------
(* Properties of the user manager *)

\* the last call was create_user / a manager call
CalledCreateUser == result.op = "create_user"
CalledManager == result.op \in {"create_user", "create_superuser"}

\* some row stored before the last call has the email or the username the
\* last call would store
ConflictBefore ==
    \E v \in result.before :
        \/ v.email = normalize_email(result.email)
        \/ v.username = (IF "username" \in DOMAIN result.extra_fields
                         THEN result.extra_fields["username"] ELSE "")

\* C4 as stated: create_user with an empty or absent email fails with a
\* validation error and stores nothing; with any non-empty email it succeeds
\* and stores the normalized email.
C4_Original ==
    CalledCreateUser =>
        /\ Falsy(result.email)
              => result.outcome = "ValueError" /\ users = result.before
        /\ ~Falsy(result.email)
              => /\ result.outcome = "ok"
                 /\ result.user[1].email = normalize_email(result.email)

\* C4 amended: create_user with an empty or absent email fails with a
\* validation error and stores nothing; with a non-empty email whose
\* normalized form and whose username are not those of a stored user it
\* succeeds and the stored user's email is the normalized email.
C4_Amended ==
    CalledCreateUser =>
        /\ Falsy(result.email)
              => result.outcome = "ValueError" /\ users = result.before
        /\ ~Falsy(result.email) /\ ~ConflictBefore
              => /\ result.outcome = "ok"
                 /\ result.user[1] \in users
                 /\ result.user[1].email = normalize_email(result.email)

\* create_user(" A@B", ...) succeeded with one user already stored, and the
\* row holds "A@b"
C4_Witness ==
    /\ CalledCreateUser
    /\ result.email = Some(<<" ", "A", "@", "B">>)
    /\ result.outcome = "ok"
    /\ result.before # {}
    /\ \E u \in users : u.email = <<"A", "@", "b">> /\ u.id = result.user[1].id

\* C5: a successful create_superuser returns a user with is_staff and
\* is_superuser True; a call that passes is_staff or is_superuser with a value
\* other than True fails with a validation error and stores nothing.
C5_SuperuserFlags ==
    result.op = "create_superuser" =>
        /\ result.outcome = "ok"
              => /\ result.user[1].is_staff = "True"
                 /\ result.user[1].is_superuser = "True"
                 /\ result.user[1] \in users
        /\ (\E k \in {"is_staff", "is_superuser"} :
                /\ k \in DOMAIN result.extra_fields
                /\ result.extra_fields[k] # "True")
              => result.outcome = "ValueError" /\ users = result.before

\* create_superuser succeeded without explicit flags
C5_Witness ==
    /\ result.op = "create_superuser"
    /\ result.extra_fields = << >>
    /\ result.outcome = "ok"
    /\ \E u \in users : u.is_staff = "True" /\ u.is_superuser = "True"

\* the password argument of the last call is None or ""
PasswordAbsent == result.password \in {None, Some("")}

\* C8 as stated: create_user with an absent password (None or empty) fails
\* and stores no user.
C8_Original ==
    CalledCreateUser /\ PasswordAbsent
        => result.outcome # "ok" /\ users = result.before

\* C8 amended: create_user does not check the password: with a None or empty
\* password it fails exactly when the email is empty or absent or the row
\* would break a unique constraint, and otherwise stores a user whose password
\* is unusable (None) or the hash of the empty string ("").
C8_Amended ==
    CalledCreateUser /\ PasswordAbsent =>
        /\ result.outcome = "ok"
              <=> ~Falsy(result.email) /\ ~ConflictBefore
        /\ result.outcome = "ok"
              => /\ result.user[1] \in users
                 /\ result.user[1].password =
                       (IF result.password = None THEN <<"!unusable">>
                        ELSE <<"hash", "">>)

\* create_user(email, "") stored a user
C8_Witness ==
    /\ CalledCreateUser
    /\ result.password = Some("")
    /\ result.outcome = "ok"
    /\ result.user[1] \in users

\* C9: no two stored users have the same email, and a creation whose
\* normalized email is that of a stored user is rejected and leaves the users
\* unchanged.
C9_EmailUnique ==
    /\ \A u, v \in users : u.email = v.email => u = v
    /\ (/\ CalledManager
        /\ ~Falsy(result.email)
        /\ \E v \in result.before :
              v.email = normalize_email(result.email))
          => result.outcome # "ok" /\ users = result.before

\* "a@B" was rejected because "a@b" is stored, under another username
C9_Witness ==
    /\ CalledManager
    /\ result.email = Some(<<"a", "@", "B">>)
    /\ result.outcome = "IntegrityError"
    /\ "username" \in DOMAIN result.extra_fields
    /\ \A v \in users : v.username = "" /\ v.email = <<"a", "@", "b">>
    /\ users # {}

----------------------------------------------------------------------------
(* Properties of AccessToken *)

\* C1: is_token_expired() without an override returns False exactly when the
\* clock is strictly before created + valid_time minutes, True otherwise.
C1_ExpiryWindow ==
    result.op = "is_token_expired" /\ result.custom_valid_time = None
        => (result.ret = FALSE
              <=> now - result.self.created[1]
                    < result.self.valid_time * SecondsPerMinute)

\* the default window of 90 minutes has passed and the call returned True
C1_Witness ==
    /\ result.op = "is_token_expired"
    /\ result.custom_valid_time = None
    /\ result.self.valid_time = DefaultValidTime
    /\ now > result.self.created[1] + DefaultValidTime * SecondsPerMinute
    /\ result.ret = TRUE

\* C2: a save of a token that has a primary key leaves its token string and
\* its created timestamp as they were, whatever happens to valid_time.
C2_SaveKeepsToken ==
    result.op = "save" /\ result.self.id # None
        => /\ result.saved.token = result.self.token
           /\ result.saved.created = result.self.created
           /\ \A old \in result.before : \A row \in tokens :
                 old.id = row.id
                    => old.token = row.token /\ old.created = row.created
           /\ \E row \in tokens :
                 row.id = result.self.id
                 /\ row.valid_time = result.self.valid_time

\* a stored token was saved again, later than its creation and with another
\* valid_time
C2_Witness ==
    /\ result.op = "save"
    /\ result.self.id # None
    /\ now > result.self.created[1]
    /\ \E old \in result.before :
          old.id = result.self.id /\ old.valid_time # result.self.valid_time

\* C3 as stated: with an override window w the result is whether the clock is
\* at or past created + w minutes, for every w including 0, whatever the
\* stored valid_time.
C3_Override ==
    result.op = "is_token_expired" /\ result.custom_valid_time # None
        => (result.ret = TRUE
              <=> now >= result.self.created[1]
                           + result.custom_valid_time[1] * SecondsPerMinute)

\* C6: is_token_valid(t) is True exactly when t is the stored token string;
\* it returns a boolean, changes nothing and does not look at the expiry.
C6_TokenValid ==
    result.op = "is_token_valid"
        => /\ result.ret \in BOOLEAN
           /\ result.ret = TRUE <=> result.given_token = result.self.token
           /\ tokens = result.before
           /\ result.self \in tokens

\* the stored token string was accepted on a token that has expired
C6_Witness ==
    /\ result.op = "is_token_valid"
    /\ result.ret = TRUE
    /\ result.self.valid_time = DefaultValidTime
    /\ now >= result.self.created[1] + DefaultValidTime * SecondsPerMinute
    /\ is_token_expired(result.self, None)

----------------------------------------------------------------------------
(* Properties of Course *)

\* C7 as stated: after a course is deleted, the AccessToken that was linked
\* to it is no longer stored.
C7_CourseDeleteCascades ==
    result.op = "course_delete"
        => \A t \in tokens : t.id # result.self.access_token

\* the token string of the token a course links to, "" without a link
CurrentToken(c) ==
    IF c.access_token = None THEN ""
    ELSE (CHOOSE t \in tokens : t.id = c.access_token).token

\* the route a helper names
Route(helper) ==
    CASE helper = "student" -> "student:detail"
      [] helper = "student_leave" -> "student:leave_course"
      [] helper = "student_register" -> "student:register_course"
      [] helper = "teacher" -> "teacher:detail"
      [] helper = "teacher_delete" -> "teacher:delete"
      [] helper = "teacher_edit" -> "teacher:edit"

\* C10: get_absolute_student_register_url passes exactly the course id as a
\* string and the token string of the linked AccessToken, or "" when there is
\* none; the other five helpers pass the course id only.
C10_RegisterUrl ==
    result.op = "url"
        => /\ result.url.route = Route(result.helper)
           /\ result.url.args[1] = ToString(result.self.id)
           /\ result.helper = "student_register"
                 => /\ Len(result.url.args) = 2
                    /\ result.url.args[2] = CurrentToken(result.self)
                    /\ result.self.access_token # None
                          => result.url.args[2] \in TokenStrings
                    /\ result.self.access_token = None
                          => result.url.args[2] = ""
           /\ result.helper # "student_register"
                 => Len(result.url.args) = 1

\* the register URL of the second course carries the token string of the
\* token the course links to
C10_Witness ==
    /\ result.op = "url"
    /\ result.helper = "student_register"
    /\ result.self.id = 2
    /\ result.self.access_token # None
    /\ result.url.args = <<"2", CurrentToken(result.self)>>
    /\ \E c \in courses : c.id # result.self.id /\ c.access_token = None

====
